---- MODULE Spec2Model ----
(***************************************************************************)
(* A model of plugins/anthropic/src/claude.ts: the converters between the  *)
(* Genkit message model and the Anthropic Messages API, the request body   *)
(* builder and the runner.                                                 *)
(*                                                                         *)
(* Encoding of JavaScript values:                                          *)
(*   undefined           [t |-> "undefined"]                               *)
(*   a string            [t |-> "string", chars |-> <<c1, ..., cn>>]       *)
(*   a number            [t |-> "number", n |-> k]                         *)
(*   a boolean           [t |-> "boolean", b |-> TRUE/FALSE]               *)
(*   an array            [t |-> "array", items |-> <<...>>]                *)
(*   a plain object      [t |-> "object", props |-> <<[k, val], ...>>]     *)
(*                       (own properties in insertion order)               *)
(* A string is a sequence of characters; the characters of the model are   *)
(* the lexical units the code's regular expression distinguishes.          *)
(* A call that may throw returns [ok |-> TRUE, val |-> v] or               *)
(* [ok |-> FALSE, err |-> message].                                        *)
(***************************************************************************)
EXTENDS Integers, Sequences, FiniteSets, TLC

VARIABLES
    part,        \* the Genkit Part handed to the content converters
    block,       \* outcome of toAnthropicMessageContent(part)
    back,        \* outcome of fromAnthropicContentBlock on that block
    toolContent, \* outcome of toAnthropicToolResponseContent(part)
    messages,    \* the MessageData[] handed to toAnthropicMessages
    converted,   \* outcome of toAnthropicMessages(messages)
    modelName,   \* the arguments of toAnthropicRequestBody
    request,
    stream,
    body,        \* outcome of toAnthropicRequestBody(modelName, request, stream)
    pc,             \* where the runner returned by claudeRunner stands
    streaming,      \* whether a streamingCallback was supplied
    delivered,      \* the stream events the provider has delivered so far
    nextRequests,   \* how many times the runner has asked the stream for an event
    callbackLog,    \* the arguments of the streamingCallback invocations, in order
    active,         \* streamingCallback invocations entered and not yet returned
    completed,      \* streamingCallback invocations that have returned
    finalRequested, \* whether stream.finalMessage() has been called
    response,       \* the Message the provider answered with
    result          \* what the runner returned

partVars == <<part, block, back, toolContent>>
msgVars == <<messages, converted>>
bodyVars == <<modelName, request, stream, body>>
runVars == <<pc, streaming, delivered, nextRequests, callbackLog, active, completed,
             finalRequested, response, result>>
vars == <<partVars, msgVars, bodyVars, runVars>>

----------------------------------------------------------------------------
(* JavaScript values *)

Undefined == [t |-> "undefined"]
Null == [t |-> "null"]
Str(s) == [t |-> "string", chars |-> s]
Num(k) == [t |-> "number", n |-> k]
Bool(b) == [t |-> "boolean", b |-> b]
Arr(items) == [t |-> "array", items |-> items]
Obj(props) == [t |-> "object", props |-> props]

Returns(v) == [ok |-> TRUE, val |-> v]
Throws(msg) == [ok |-> FALSE, err |-> msg]
NotCalled == [ok |-> FALSE, err |-> "not called"]

\* JavaScript truthiness (the `if (x)` and `!x` tests of the code).
Truthy(v) ==
    CASE v.t = "undefined" -> FALSE
      [] v.t = "null" -> FALSE
      [] v.t = "string" -> v.chars # <<>>
      [] v.t = "number" -> v.n # 0
      [] v.t = "boolean" -> v.b
      [] OTHER -> TRUE

\* x ?? y
Coalesce(x, y) == IF x.t = "undefined" \/ x.t = "null" THEN y ELSE x

HasProp(o, key) == \E i \in 1..Len(o.props) : o.props[i].k = key
GetProp(o, key) ==
    IF o.t = "object" /\ HasProp(o, key)
    THEN o.props[CHOOSE i \in 1..Len(o.props) : o.props[i].k = key].val
    ELSE Undefined

----------------------------------------------------------------------------
(* Bounds and input domains *)

MaxStrLen == 5

Chars == {"data:", ";", "base64,", "image/png", "AAAA", "\n"}

RECURSIVE SeqsUpTo(_, _)
SeqsUpTo(S, n) ==
    IF n = 0 THEN {<<>>}
    ELSE LET shorter == SeqsUpTo(S, n - 1)
         IN  shorter \cup {Append(s, c) : s \in {x \in shorter : Len(x) = n - 1}, c \in S}

Strings == SeqsUpTo(Chars, MaxStrLen)

ContentTypes == {Undefined, Str(<<>>), Str(<<"image/jpeg">>), Str(<<"image/png">>)}
Refs == {Undefined, Str(<<"AAAA">>)}
ToolNames == {Str(<<"AAAA">>), Str(<<"\n">>)}

----------------------------------------------------------------------------
(* Helpers of the content converters *)

\* Position of the first occurrence of character c in s at or after from, 0 if none.
FirstIndexOf(s, from, c) ==
    IF \E i \in from..Len(s) : s[i] = c
    THEN CHOOSE i \in from..Len(s) : s[i] = c /\ \A j \in from..(i - 1) : s[j] # c
    ELSE 0

NoMatch == [matched |-> FALSE]

\* The match of /^data:([^;]+);base64,(.+)$/ on url, given the position semi
\* of the first ';' after "data:": the first group is the longest run of
\* non-';' characters (at least one), ";base64," follows, and the second
\* group is the rest, at least one character, none a line terminator.
MatchWithSemicolonAt(url, semi) ==
    IF /\ Len(url) >= 1
       /\ url[1] = "data:"
       /\ semi > 2
       /\ Len(url) >= semi + 2
       /\ url[semi + 1] = "base64,"
       /\ FirstIndexOf(url, semi + 2, "\n") = 0
    THEN [matched |-> TRUE,
          contentType |-> SubSeq(url, 2, semi - 1),
          data |-> SubSeq(url, semi + 2, Len(url))]
    ELSE NoMatch

\* extractDataFromBase64Url(url)
ExtractDataFromBase64Url(url) == MatchWithSemicolonAt(url, FirstIndexOf(url, 2, ";"))

\* typeof obj === 'object' && obj !== null && 'url' in obj && typeof obj.url === 'string'
IsMediaObject(obj) ==
    /\ obj.t = "object"
    /\ HasProp(obj, "url")
    /\ GetProp(obj, "url").t = "string"

EscapeChar(c) == IF c = "\n" THEN "\\n" ELSE IF c = "\"" THEN "\\\"" ELSE c

Quote(s) == <<"\"">> \o [i \in 1..Len(s) |-> EscapeChar(s[i])] \o <<"\"">>

RECURSIVE JoinWith(_, _)
JoinWith(pieces, sep) ==
    IF pieces = <<>> THEN <<>>
    ELSE IF Len(pieces) = 1 THEN pieces[1]
    ELSE pieces[1] \o <<sep>> \o JoinWith(Tail(pieces), sep)

\* JSON.stringify(v): the text as a character sequence, or Undefined when
\* JSON.stringify returns undefined.
RECURSIVE JSONchars(_)
JSONchars(v) ==
    CASE v.t = "string" -> Quote(v.chars)
      [] v.t = "number" -> <<ToString(v.n)>>
      [] v.t = "boolean" -> IF v.b THEN <<"true">> ELSE <<"false">>
      [] v.t = "array" ->
            <<"[">> \o
            JoinWith([i \in 1..Len(v.items) |->
                        IF v.items[i].t = "undefined" THEN <<"null">>
                        ELSE JSONchars(v.items[i])], ",")
            \o <<"]">>
      [] v.t = "object" ->
            LET kept == SelectSeq(v.props, LAMBDA p : p.val.t # "undefined")
            IN  <<"{">> \o
                JoinWith([i \in 1..Len(kept) |->
                            Quote(<<kept[i].k>>) \o <<":">> \o JSONchars(kept[i].val)], ",")
                \o <<"}">>
      [] OTHER -> <<"null">>

JSONstringify(v) == IF v.t = "undefined" THEN Undefined ELSE Str(JSONchars(v))

----------------------------------------------------------------------------
(* Genkit parts and Anthropic content blocks *)

NoPart == [text |-> Undefined, media |-> Undefined,
           toolRequest |-> Undefined, toolResponse |-> Undefined]

TextPart(s) == [NoPart EXCEPT !.text = Str(s)]
MediaPart(url, contentType) ==
    [NoPart EXCEPT !.media = [t |-> "media", url |-> url, contentType |-> contentType]]
ToolRequestPart(ref, name, input) ==
    [NoPart EXCEPT !.toolRequest =
        [t |-> "toolRequest", ref |-> ref, name |-> name, input |-> input]]
ToolResponsePart(ref, name, output) ==
    [NoPart EXCEPT !.toolResponse =
        [t |-> "toolResponse", ref |-> ref, name |-> name, output |-> output]]

TextBlock(text) == [type |-> "text", text |-> text]
ImageBlock(data, mediaType) ==
    [type |-> "image", source |-> [type |-> "base64", data |-> data, media_type |-> mediaType]]
ToolUseBlock(id, name, input) == [type |-> "tool_use", id |-> id, name |-> name, input |-> input]
ToolResultBlock(id, content) == [type |-> "tool_result", tool_use_id |-> id, content |-> content]

\* x || y
OrElse(x, y) == IF Truthy(x) THEN x ELSE y

\* The media type with `||` in place of `??`.
MediaTypeWithOr(explicit, captured) == OrElse(explicit, Str(captured))

\* media_type: explicit contentType ?? the contentType captured from the URL
MediaType(explicit, captured) == Coalesce(explicit, Str(captured))

\* The block returned for the tool output, given the outcome of the URL match.
ToolResponseBlock(output, base64Data) ==
    IF base64Data.matched
    THEN ImageBlock(Str(base64Data.data),
                    MediaType(GetProp(output, "contentType"), base64Data.contentType))
    ELSE TextBlock(IF output.t = "string" THEN output ELSE JSONstringify(output))

\* let base64Data: set from the url of a media object, else from a string output
Base64DataOf(output) ==
    IF IsMediaObject(output) THEN ExtractDataFromBase64Url(GetProp(output, "url").chars)
    ELSE IF output.t = "string" THEN ExtractDataFromBase64Url(output.chars)
    ELSE NoMatch

\* toAnthropicToolResponseContent(part)
ToAnthropicToolResponseContent(p) ==
    IF ~Truthy(p.toolResponse)
    THEN Throws("Invalid genkit part provided to toAnthropicToolResponseContent")
    ELSE Returns(ToolResponseBlock(p.toolResponse.output, Base64DataOf(p.toolResponse.output)))

\* The image block of a media part, given the outcome of the URL match.
MediaBlock(media, m) ==
    IF ~m.matched
    THEN Throws("Invalid genkit part media provided to toAnthropicMessageContent")
    ELSE Returns(ImageBlock(Str(m.data), MediaType(media.contentType, m.contentType)))

\* The tool_use block with its id taken from the request's name.
ToolUseIdFromName(toolRequest) ==
    ToolUseBlock(toolRequest.name, toolRequest.name, toolRequest.input)

\* {type: 'tool_use', id: part.toolRequest.ref, name, input}
ToolUseOf(toolRequest) ==
    ToolUseBlock(toolRequest.ref, toolRequest.name, toolRequest.input)

\* {type: 'tool_result', tool_use_id, content: [inner]}, or inner's exception
ToolResultOf(toolResponse, inner) ==
    IF inner.ok THEN Returns(ToolResultBlock(toolResponse.ref, <<inner.val>>)) ELSE inner

\* toAnthropicMessageContent(part)
ToAnthropicMessageContent(p) ==
    IF Truthy(p.text) THEN Returns(TextBlock(p.text))
    ELSE IF Truthy(p.media) THEN MediaBlock(p.media, ExtractDataFromBase64Url(p.media.url))
    ELSE IF Truthy(p.toolRequest) THEN Returns(ToolUseOf(p.toolRequest))
    ELSE IF Truthy(p.toolResponse)
         THEN ToolResultOf(p.toolResponse, ToAnthropicToolResponseContent(p))
    ELSE Throws("Unsupported genkit part fields encountered for current message role")

\* contentBlock.text of a block that may have no text field
BlockText(b) == IF b.type = "text" THEN b.text ELSE Undefined

\* fromAnthropicContentBlock(contentBlock)
FromAnthropicContentBlock(b) ==
    IF b.type = "tool_use"
    THEN ToolRequestPart(b.id, b.name, b.input)
    ELSE [NoPart EXCEPT !.text = BlockText(b)]


----------------------------------------------------------------------------
(* Roles and message sequences *)

\* toAnthropicRole(role, toolMessageType); toolMessageType is "tool_use",
\* "tool_result" or "undefined".
ToAnthropicRole(role, toolMessageType) ==
    CASE role = "user" -> Returns("user")
      [] role = "model" -> Returns("assistant")
      [] role = "tool" ->
            Returns(IF toolMessageType = "tool_use" THEN "assistant" ELSE "user")
      [] OTHER -> Throws("role doesn't map to an Anthropic role.")

IsToolBlock(c) == c.type = "tool_use" \/ c.type = "tool_result"

\* The type of a tool_use block if the content holds one, whatever precedes it.
ToolMessageTypeAnyToolUse(content) ==
    IF \E i \in 1..Len(content) : content[i].type = "tool_use" THEN "tool_use"
    ELSE IF \E i \in 1..Len(content) : content[i].type = "tool_result" THEN "tool_result"
    ELSE "undefined"

\* content.find((c) => c.type === 'tool_use' || c.type === 'tool_result')?.type
ToolMessageType(content) ==
    IF \E i \in 1..Len(content) : IsToolBlock(content[i])
    THEN content[CHOOSE i \in 1..Len(content) :
                    /\ IsToolBlock(content[i])
                    /\ \A j \in 1..(i - 1) : ~IsToolBlock(content[j])].type
    ELSE "undefined"

\* The first failure among the outcomes rs, or 0.
FirstThrow(rs) ==
    IF \E i \in 1..Len(rs) : ~rs[i].ok
    THEN CHOOSE i \in 1..Len(rs) : ~rs[i].ok /\ \A j \in 1..(i - 1) : rs[j].ok
    ELSE 0

\* The values of outcomes that all returned.
Values(rs) == [i \in 1..Len(rs) |-> rs[i].val]

\* {role, content}, or the exception of toAnthropicRole
MessageParam(role, content) ==
    IF ~role.ok THEN role ELSE Returns([role |-> role.val, content |-> content])

\* const role = toAnthropicRole(message.role, toolMessageType?.type); push({role, content})
WithRole(message, content) ==
    MessageParam(ToAnthropicRole(message.role, ToolMessageType(content)), content)

\* The rest of an iteration once the parts are converted; failed is the first
\* part whose conversion threw, or 0.
AfterContent(message, outcomes, failed) ==
    IF failed # 0 THEN outcomes[failed] ELSE WithRole(message, Values(outcomes))

\* msg.content.map(toAnthropicMessageContent)
ContentOutcomes(message) ==
    [i \in 1..Len(message.content) |-> ToAnthropicMessageContent(message.content[i])]

\* An iteration, given the outcomes of converting the parts.
ConvertWith(message, outcomes) == AfterContent(message, outcomes, FirstThrow(outcomes))

\* One iteration of the loop of toAnthropicMessages.
ConvertMessage(message) == ConvertWith(message, ContentOutcomes(message))

\* messages[0]?.role === 'system' ? messages[0].content?.[0]?.text : undefined
SystemOf(msgs) ==
    IF Len(msgs) >= 1 /\ msgs[1].role = "system" /\ Len(msgs[1].content) >= 1
    THEN msgs[1].content[1].text
    ELSE Undefined

\* const messagesToIterate = system ? messages.slice(1) : messages;
MessagesToIterate(msgs, system) == IF Truthy(system) THEN Tail(msgs) ELSE msgs

\* return { system, messages: anthropicMsgs }, or the first exception of the loop
LoopResult(system, outcomes, failed) ==
    IF failed # 0 THEN outcomes[failed]
    ELSE Returns([system |-> system, messages |-> Values(outcomes)])

\* The iterations of the loop, one outcome per message.
LoopOutcomes(toIterate) == [i \in 1..Len(toIterate) |-> ConvertMessage(toIterate[i])]

\* The loop, given the outcomes of its iterations.
LoopOver(system, outcomes) == LoopResult(system, outcomes, FirstThrow(outcomes))

\* toAnthropicMessages once system is extracted.
MessagesWithSystem(msgs, system) == LoopOver(system, LoopOutcomes(MessagesToIterate(msgs, system)))

\* toAnthropicMessages(messages)
ToAnthropicMessages(msgs) == MessagesWithSystem(msgs, SystemOf(msgs))

----------------------------------------------------------------------------
(* The request body *)

DefaultMaxTokens == 4096

SupportedNames == {"claude-3-5-sonnet", "claude-3-opus", "claude-3-sonnet", "claude-3-haiku"}

\* modelRef({name, version, ...})
ModelRef(name, version) ==
    [t |-> "modelRef", name |-> Str(<<name>>), version |-> Str(<<version>>)]

claude35Sonnet == ModelRef("anthropic/claude-3-5-sonnet", "claude-3-5-sonnet-20240620")
claude3Opus == ModelRef("anthropic/claude-3-opus", "claude-3-opus-20240229")
claude3Sonnet == ModelRef("anthropic/claude-3-sonnet", "claude-3-sonnet-20240229")
claude3Haiku == ModelRef("anthropic/claude-3-haiku", "claude-3-haiku-20240307")

\* SUPPORTED_CLAUDE_MODELS[name]
SUPPORTED_CLAUDE_MODELS(name) ==
    CASE name = "claude-3-5-sonnet" -> claude35Sonnet
      [] name = "claude-3-opus" -> claude3Opus
      [] name = "claude-3-sonnet" -> claude3Sonnet
      [] name = "claude-3-haiku" -> claude3Haiku
      [] OTHER -> Undefined

\* toAnthropicTool(tool)
ToAnthropicTool(tool) ==
    [name |-> tool.name, description |-> tool.description, input_schema |-> tool.inputSchema]

\* request.config?.field
ConfigField(req, field) == IF req.config = Undefined THEN Undefined ELSE req.config[field]

BodyKeys == {"system", "messages", "tools", "max_tokens", "model", "top_k", "top_p",
             "temperature", "stop_sequences", "metadata", "tool_choice", "stream"}

\* The model version with the registry's version preferred to the request's.
MappedModelNameRegistryFirst(name, req) ==
    Coalesce(SUPPORTED_CLAUDE_MODELS(name).version,
             Coalesce(ConfigField(req, "version"), Str(<<name>>)))

\* const mappedModelName = request.config?.version ?? model.version ?? modelName;
MappedModelName(name, req) ==
    Coalesce(ConfigField(req, "version"),
             Coalesce(SUPPORTED_CLAUDE_MODELS(name).version, Str(<<name>>)))

\* request.tools?.map(toAnthropicTool)
MappedTools(req) ==
    IF req.tools = Undefined THEN Undefined
    ELSE Arr([i \in 1..Len(req.tools.items) |-> ToAnthropicTool(req.tools.items[i])])

\* The object literal assigned to body, before any key is deleted.
AssembledBody(name, req, strm, conv) ==
    [key \in BodyKeys |->
        CASE key = "system" -> conv.system
          [] key = "messages" -> Arr(conv.messages)
          [] key = "tools" -> MappedTools(req)
          [] key = "max_tokens" -> Coalesce(ConfigField(req, "maxOutputTokens"), Num(DefaultMaxTokens))
          [] key = "model" -> MappedModelName(name, req)
          [] key = "top_k" -> ConfigField(req, "topK")
          [] key = "top_p" -> ConfigField(req, "topP")
          [] key = "temperature" -> ConfigField(req, "temperature")
          [] key = "stop_sequences" -> ConfigField(req, "stopSequences")
          [] key = "metadata" -> ConfigField(req, "metadata")
          [] key = "tool_choice" -> ConfigField(req, "tool_choice")
          [] key = "stream" -> strm]

\* The keys that survive when only undefined values are deleted.
KeptKeysUndefinedOnly(assembled) == {key \in DOMAIN assembled : assembled[key] # Undefined}

\* The keys that survive
\* for (const key in body)
\*   if (!body[key] || (Array.isArray(body[key]) && !body[key].length)) delete body[key];
KeptKeys(assembled) ==
    {key \in DOMAIN assembled :
        ~ \/ ~Truthy(assembled[key])
          \/ assembled[key].t = "array" /\ Len(assembled[key].items) = 0}

\* The body with only the keys kept left in it.
Restrict(assembled, kept) == [key \in kept |-> assembled[key]]

\* The body once the loop has deleted keys from it.
StripBody(assembled) == Restrict(assembled, KeptKeys(assembled))

\* request.output?.format
OutputFormat(req) == IF req.output = Undefined THEN Undefined ELSE req.output.format

OnlyTextError == Throws("Only text output format is supported for Claude models currently")
UnsupportedModelError == Throws("Unsupported model")

\* The test of the output format with 'media' let through.
FormatIsJson(format) == format = Str(<<"json">>)

\* request.output?.format && request.output.format !== 'text'
FormatUnsupported(format) == Truthy(format) /\ format # Str(<<"text">>)

\* toAnthropicRequestBody from the conversion of the messages onwards.
BodyFrom(name, req, strm, conv) ==
    IF ~conv.ok THEN conv
    ELSE IF FormatUnsupported(OutputFormat(req)) THEN OnlyTextError
    ELSE Returns(StripBody(AssembledBody(name, req, strm, conv.val)))

\* toAnthropicRequestBody(modelName, request, stream)
ToAnthropicRequestBody(name, req, strm) ==
    IF ~Truthy(SUPPORTED_CLAUDE_MODELS(name)) THEN UnsupportedModelError
    ELSE BodyFrom(name, req, strm, ToAnthropicMessages(req.messages))

----------------------------------------------------------------------------
(* Responses and stream events *)

\* obj[field] of an object that may lack the field
Field(obj, field) == IF field \in DOMAIN obj THEN obj[field] ELSE Undefined

\* fromAnthropicContentBlockChunk(event); Undefined stands for `return;`
FromAnthropicContentBlockChunk(event) ==
    IF event.type # "content_block_start" /\ event.type # "content_block_delta"
    THEN Undefined
    ELSE LET eventField == IF event.type = "content_block_start"
                           THEN "content_block" ELSE "delta"
             sub == event[eventField]
         IN  IF sub.type \in {"text", "text_delta"}
             THEN [NoPart EXCEPT !.text = Field(sub, "text")]
             ELSE ToolRequestPart(Field(sub, "id"), Field(sub, "name"), Field(sub, "input"))

\* fromAnthropicStopReason with tool_use left to the default branch.
StopReasonWithoutToolUse(reason) ==
    CASE reason = Str(<<"max_tokens">>) -> "length"
      [] reason \in {Str(<<"end_turn">>), Str(<<"stop_sequence">>)} -> "stop"
      [] reason = Null -> "unknown"
      [] OTHER -> "other"

\* fromAnthropicStopReason(reason)
FromAnthropicStopReason(reason) ==
    CASE reason = Str(<<"max_tokens">>) -> "length"
      [] reason \in {Str(<<"end_turn">>), Str(<<"stop_sequence">>), Str(<<"tool_use">>)} -> "stop"
      [] reason = Null -> "unknown"
      [] OTHER -> "other"

\* fromAnthropicResponse(response)
FromAnthropicResponse(resp) ==
    [candidates |->
        << [index |-> 0,
            finishReason |-> FromAnthropicStopReason(resp.stop_reason),
            message |-> [role |-> "model",
                         content |-> [i \in 1..Len(resp.content) |->
                                        FromAnthropicContentBlock(resp.content[i])]]] >>,
     usage |-> [inputTokens |-> resp.usage.input_tokens,
                outputTokens |-> resp.usage.output_tokens],
     custom |-> resp]

----------------------------------------------------------------------------
(* Components that take no part in a specification rest in these states *)

PartsIdle ==
    /\ part = NoPart
    /\ block = NotCalled
    /\ back = NotCalled
    /\ toolContent = NotCalled

MessagesIdle ==
    /\ messages = <<>>
    /\ converted = NotCalled

NoRequest == [messages |-> <<>>, tools |-> Undefined, output |-> Undefined, config |-> Undefined]

BodyIdle ==
    /\ modelName = ""
    /\ request = NoRequest
    /\ stream = Undefined
    /\ body = NotCalled

RunnerIdle ==
    /\ pc = "idle"
    /\ streaming = FALSE
    /\ delivered = <<>>
    /\ nextRequests = 0
    /\ callbackLog = <<>>
    /\ active = 0
    /\ completed = 0
    /\ finalRequested = FALSE
    /\ response = Undefined
    /\ result = NotCalled

----------------------------------------------------------------------------
(* The content converters applied to one part *)

MediaObject(url, contentType) ==
    Obj(IF contentType = Undefined
        THEN <<[k |-> "url", val |-> Str(url)]>>
        ELSE <<[k |-> "url", val |-> Str(url)], [k |-> "contentType", val |-> contentType]>>)

DataUrlExample == <<"data:", "image/png", ";", "base64,", "AAAA">>

\* Tool outputs that are neither strings nor media objects.
OtherOutputs ==
    { Undefined, Num(1), Bool(FALSE),
      Obj(<<[k |-> "foo", val |-> Num(1)]>>),
      Obj(<<[k |-> "url", val |-> Num(1)]>>),
      Obj(<<[k |-> "contentType", val |-> Str(<<"image/jpeg">>)]>>),
      Arr(<<Str(DataUrlExample), Undefined>>) }



Inputs == {Undefined, Str(<<>>), Obj(<<[k |-> "foo", val |-> Num(1)]>>)}



ToolRequestParts == {ToolRequestPart(r, n, i) : r \in Refs, n \in ToolNames, i \in Inputs}




InitParts ==
    /\ \/ \E u \in Strings, ct \in ContentTypes : part = MediaPart(u, ct)
       \/ \E s \in Strings : part = TextPart(s)
       \/ part \in ToolRequestParts \cup {NoPart}
       \/ \E r \in Refs, o \in OtherOutputs : part = ToolResponsePart(r, Str(<<"AAAA">>), o)
       \/ \E r \in Refs, s \in Strings : part = ToolResponsePart(r, Str(<<"AAAA">>), Str(s))
       \/ \E r \in Refs, u \in Strings, ct \in ContentTypes : part = ToolResponsePart(r, Str(<<"AAAA">>), MediaObject(u, ct))
    /\ block = NotCalled
    /\ back = NotCalled
    /\ toolContent = NotCalled
    /\ MessagesIdle
    /\ BodyIdle
    /\ RunnerIdle

\* toAnthropicMessageContent(part) is called.
ConvertOutbound ==
    /\ block = NotCalled
    /\ block' = ToAnthropicMessageContent(part)
    /\ UNCHANGED <<part, back, toolContent, msgVars, bodyVars, runVars>>

\* fromAnthropicContentBlock is called on the block just produced.
ConvertInbound ==
    /\ block.ok
    /\ back = NotCalled
    /\ back' = Returns(FromAnthropicContentBlock(block.val))
    /\ UNCHANGED <<part, block, toolContent, msgVars, bodyVars, runVars>>

NextParts == ConvertOutbound \/ ConvertInbound

SpecParts == InitParts /\ [][NextParts]_vars

InitToolResponse ==
    /\ \/ part = NoPart
       \/ \E r \in Refs, o \in OtherOutputs : part = ToolResponsePart(r, Str(<<"AAAA">>), o)
       \/ \E r \in Refs, s \in Strings : part = ToolResponsePart(r, Str(<<"AAAA">>), Str(s))
       \/ \E r \in Refs, u \in Strings, ct \in ContentTypes : part = ToolResponsePart(r, Str(<<"AAAA">>), MediaObject(u, ct))
    /\ block = NotCalled
    /\ back = NotCalled
    /\ toolContent = NotCalled
    /\ MessagesIdle
    /\ BodyIdle
    /\ RunnerIdle

\* toAnthropicToolResponseContent(part) is called.
ConvertToolResponse ==
    /\ toolContent = NotCalled
    /\ toolContent' = ToAnthropicToolResponseContent(part)
    /\ UNCHANGED <<part, block, back, msgVars, bodyVars, runVars>>

NextToolResponse == ConvertToolResponse

SpecToolResponse == InitToolResponse /\ [][NextToolResponse]_vars

----------------------------------------------------------------------------
(* Properties of the content converters *)

Range(s) == {s[i] : i \in 1..Len(s)}

\* s is data:<mime>;base64,<payload> with that mime type and that payload.
IsDataUrlOf(s, mime, payload) ==
    /\ s = <<"data:">> \o mime \o <<";", "base64,">> \o payload
    /\ mime # <<>> /\ ";" \notin Range(mime)
    /\ payload # <<>> /\ "\n" \notin Range(payload)

Splits(s) == {<<SubSeq(s, 2, m), SubSeq(s, m + 3, Len(s))>> : m \in 1..Len(s)}

IsDataUrl(s) == \E sp \in Splits(s) : IsDataUrlOf(s, sp[1], sp[2])

Tags == {"text", "media", "toolRequest", "toolResponse"}
TagsSet(p) ==
    {tag \in Tags : CASE tag = "text" -> p.text # Undefined
                      [] tag = "media" -> p.media # Undefined
                      [] tag = "toolRequest" -> p.toolRequest # Undefined
                      [] tag = "toolResponse" -> p.toolResponse # Undefined}

RoundTrips ==
    back # NotCalled =>
        /\ TagsSet(part) = {"text"} => back.val.text = part.text
        /\ TagsSet(part) = {"toolRequest"} =>
              /\ back.val.toolRequest.ref = part.toolRequest.ref
              /\ back.val.toolRequest.name = part.toolRequest.name
              /\ back.val.toolRequest.input = part.toolRequest.input

\* C4 as stated: for every part with exactly one tag set,
\* toAnthropicMessageContent never throws, and text and toolRequest parts
\* survive the round trip through fromAnthropicContentBlock.
C4_TotalAndRoundTrip ==
    (Cardinality(TagsSet(part)) = 1 /\ block # NotCalled) =>
        /\ block.ok
        /\ RoundTrips

\* C4 amended: for a part with exactly one tag set, toAnthropicMessageContent
\* throws exactly when the part is a text part with the empty string or a
\* media part whose url is not a base64 data URL; in every other case it
\* returns a block, and text and toolRequest parts survive the round trip.
C4_ThrowsOnlyOnEmptyTextOrBadMedia ==
    (Cardinality(TagsSet(part)) = 1 /\ block # NotCalled) =>
        /\ block.ok <=>
              ~ \/ TagsSet(part) = {"text"} /\ part.text.chars = <<>>
                \/ TagsSet(part) = {"media"} /\ ~IsDataUrl(part.media.url)
        /\ RoundTrips

C4_Witness ==
    /\ TagsSet(part) = {"toolRequest"}
    /\ part.toolRequest.ref # Undefined
    /\ part.toolRequest.ref # part.toolRequest.name
    /\ back # NotCalled

ImageExample == MediaObject(DataUrlExample, Str(<<"image/png">>))
FooExample == Obj(<<[k |-> "foo", val |-> Num(1)]>>)

\* The string the tool output offers as a data URL: the url of a media
\* object, or the output itself when it is a string.
OfferedUrl(output) ==
    IF output.t = "object" /\ HasProp(output, "url") /\ GetProp(output, "url").t = "string"
    THEN <<GetProp(output, "url").chars>>
    ELSE IF output.t = "string" THEN <<output.chars>>
    ELSE <<>>

\* C8: for every toolResponse part, toAnthropicToolResponseContent returns
\* one block: an image block (data = the payload, media_type = the media
\* object's contentType if present, else the mime type of the URL) when the
\* output's url, or the output string itself, is a base64 data URL; in every
\* other case a text block holding the raw string or the JSON serialization.
C8_ToolResponseContent ==
    (part.toolResponse # Undefined /\ toolContent # NotCalled) =>
        LET output == part.toolResponse.output
            offered == OfferedUrl(output)
        IN  /\ toolContent.ok
            /\ IF offered # <<>> /\ IsDataUrl(offered[1])
               THEN \E sp \in Splits(offered[1]) :
                      /\ IsDataUrlOf(offered[1], sp[1], sp[2])
                      /\ toolContent.val =
                           ImageBlock(Str(sp[2]),
                                      IF output.t = "object" /\ HasProp(output, "contentType")
                                      THEN GetProp(output, "contentType")
                                      ELSE Str(sp[1]))
               ELSE toolContent.val =
                      TextBlock(IF output.t = "string" THEN output ELSE JSONstringify(output))
            /\ output = ImageExample =>
                  toolContent.val = ImageBlock(Str(<<"AAAA">>), Str(<<"image/png">>))
            /\ output = FooExample =>
                  toolContent.val = TextBlock(Str(<<"{", "\"", "foo", "\"", ":", "1", "}">>))

C8_Witness ==
    /\ part.toolResponse # Undefined
    /\ part.toolResponse.output = MediaObject(DataUrlExample, Str(<<>>))
    /\ toolContent # NotCalled
    /\ toolContent.val.type = "image"

----------------------------------------------------------------------------
(* toAnthropicMessages applied to one message list *)

MaxMessages == 2
MaxParts == 3

Roles == {"user", "model", "system", "tool"}

SomeText == TextPart(<<"AAAA">>)
EmptyText == TextPart(<<>>)
SomeToolRequest == ToolRequestPart(Str(<<"AAAA">>), Str(<<"AAAA">>), Undefined)
SomeToolResponse == ToolResponsePart(Str(<<"AAAA">>), Str(<<"AAAA">>), Str(<<"AAAA">>))
SomeMedia == MediaPart(DataUrlExample, Undefined)

\* Messages of at most one part, for the lists of several messages.
ShortContents == {<<>>, <<SomeText>>, <<EmptyText>>, <<SomeToolRequest>>, <<SomeToolResponse>>}
ShortMessages == {[role |-> r, content |-> c] : r \in Roles, c \in ShortContents}

\* Messages of several parts, for the order of the blocks within a message.
PartPool == {SomeText, EmptyText, SomeToolRequest, SomeToolResponse, SomeMedia}
LongMessages == {[role |-> r, content |-> c] : r \in Roles, c \in SeqsUpTo(PartPool, MaxParts)}

SystemMessage == [role |-> "system", content |-> <<TextPart(<<"AAAA">>)>>]

InitMessages ==
    /\ \/ messages \in SeqsUpTo(ShortMessages, MaxMessages)
       \/ \E m \in LongMessages : messages \in {<<m>>, <<SystemMessage, m>>}
    /\ converted = NotCalled
    /\ PartsIdle
    /\ BodyIdle
    /\ RunnerIdle

\* toAnthropicMessages(messages) is called.
ConvertMessages ==
    /\ converted = NotCalled
    /\ converted' = ToAnthropicMessages(messages)
    /\ UNCHANGED <<messages, partVars, bodyVars, runVars>>

NextMessages == ConvertMessages

SpecMessages == InitMessages /\ [][NextMessages]_vars

\* Every part of the message converts and its role maps to a provider role.
Convertible(message) ==
    /\ message.role # "system"
    /\ \A i \in 1..Len(message.content) : ToAnthropicMessageContent(message.content[i]).ok

\* The provider messages stand for the messages rest, one for one and in order.
OneForOne(out, rest) ==
    /\ Len(out) = Len(rest)
    /\ \A i \in 1..Len(rest) :
          /\ Len(out[i].content) = Len(rest[i].content)
          /\ \A j \in 1..Len(rest[i].content) :
                out[i].content[j] = ToAnthropicMessageContent(rest[i].content[j]).val

\* C3 as stated: the first message is taken as the system string and left
\* out of the provider messages if and only if its role is 'system',
\* whatever its content; the remaining messages appear one for one, in order.
C3_SystemIffRole ==
    converted # NotCalled =>
        LET first == messages # <<>> /\ messages[1].role = "system"
            rest == IF first THEN Tail(messages) ELSE messages
        IN  (\A i \in 1..Len(rest) : Convertible(rest[i])) =>
                /\ converted.ok
                /\ OneForOne(converted.val.messages, rest)
                /\ first => converted.val.system = SystemOf(messages)
                /\ ~first => converted.val.system = Undefined

\* The input message behind the i-th provider message.
SourceOf(i) ==
    IF Len(converted.val.messages) = Len(messages) THEN messages[i] ELSE messages[i + 1]

\* C6 as stated: a 'tool' message becomes 'assistant' if its converted
\* content holds a tool_use block anywhere, and 'user' otherwise.
C6_AssistantIffAnyToolUse ==
    (converted # NotCalled /\ converted.ok) =>
        \A i \in 1..Len(converted.val.messages) :
            SourceOf(i).role = "tool" =>
                LET out == converted.val.messages[i]
                IN  out.role = IF \E j \in 1..Len(out.content) : out.content[j].type = "tool_use"
                               THEN "assistant" ELSE "user"

\* C6 amended: a 'tool' message becomes 'assistant' if the first block of its
\* converted content that is a tool_use or a tool_result is a tool_use, and
\* 'user' otherwise.
C6_AssistantIffFirstToolBlockIsToolUse ==
    (converted # NotCalled /\ converted.ok) =>
        \A i \in 1..Len(converted.val.messages) :
            SourceOf(i).role = "tool" =>
                LET out == converted.val.messages[i]
                    leads == \E j \in 1..Len(out.content) :
                                /\ out.content[j].type = "tool_use"
                                /\ \A k \in 1..(j - 1) : out.content[k].type # "tool_result"
                IN  out.role = IF leads THEN "assistant" ELSE "user"

C6_Witness ==
    /\ converted # NotCalled /\ converted.ok
    /\ messages = <<[role |-> "tool", content |-> <<SomeText, SomeToolResponse, SomeToolRequest>>]>>
    /\ converted.val.messages[1].role = "user"

----------------------------------------------------------------------------
(* toAnthropicRequestBody applied to one request *)

MaxTokens == 2

NoConfig ==
    [version |-> Undefined, maxOutputTokens |-> Undefined, topK |-> Undefined,
     topP |-> Undefined, temperature |-> Undefined, stopSequences |-> Undefined,
     metadata |-> Undefined, tool_choice |-> Undefined]

Versions == {Undefined, Str(<<>>), Str(<<"claude-3-haiku-20240307">>)}
TokenLimits == {Undefined} \cup {Num(k) : k \in 0..MaxTokens}
TopKs == {Undefined, Null, Num(0), Num(1)}
Fractions == {Undefined, Num(0), Num(1)}
StopSequences == {Undefined, Arr(<<>>), Arr(<<Str(<<"AAAA">>)>>)}
Metadatas == {Undefined, Obj(<<[k |-> "user_id", val |-> Str(<<"AAAA">>)]>>)}
ToolChoices == {Undefined, Obj(<<[k |-> "type", val |-> Str(<<"auto">>)]>>)}

ModelNames == SupportedNames \cup {"gpt-4"}

UserMessage == [role |-> "user", content |-> <<SomeText>>]
MessageLists ==
    { <<>>, <<UserMessage>>, <<SystemMessage, UserMessage>>,
      <<[role |-> "system", content |-> <<>>], UserMessage>>,
      <<[role |-> "user", content |-> <<MediaPart(<<"AAAA">>, Undefined)>>]>> }

SomeTool == [name |-> Str(<<"AAAA">>), description |-> Str(<<>>),
             inputSchema |-> Obj(<<[k |-> "type", val |-> Str(<<"object">>)]>>)]
ToolLists == {Undefined, Arr(<<>>), Arr(<<SomeTool>>)}

Formats == {Undefined, Str(<<"text">>), Str(<<"json">>), Str(<<"media">>)}
OutputSpecs == {Undefined} \cup {[format |-> f] : f \in Formats}

StreamFlags == {Undefined, Bool(FALSE), Bool(TRUE)}

InitBody ==
    /\ \/ /\ modelName \in ModelNames
          /\ \E m \in MessageLists, tl \in ToolLists, o \in OutputSpecs,
                c \in {Undefined, NoConfig} :
                request = [messages |-> m, tools |-> tl, output |-> o, config |-> c]
          /\ stream \in StreamFlags
       \/ /\ modelName \in {"claude-3-5-sonnet", "claude-3-haiku"}
          /\ \E v \in Versions, mt \in TokenLimits, tk \in TopKs, tp \in Fractions,
                te \in Fractions, ss \in StopSequences, md \in Metadatas, tc \in ToolChoices :
                request = [messages |-> <<UserMessage>>, tools |-> Undefined,
                           output |-> Undefined,
                           config |-> [version |-> v, maxOutputTokens |-> mt, topK |-> tk,
                                       topP |-> tp, temperature |-> te, stopSequences |-> ss,
                                       metadata |-> md, tool_choice |-> tc]]
          /\ stream = Bool(FALSE)
    /\ body = NotCalled
    /\ PartsIdle
    /\ MessagesIdle
    /\ RunnerIdle

\* toAnthropicRequestBody(modelName, request, stream) is called.
BuildBody ==
    /\ body = NotCalled
    /\ body' = ToAnthropicRequestBody(modelName, request, stream)
    /\ UNCHANGED <<modelName, request, stream, partVars, msgVars, runVars>>

NextBody == BuildBody

SpecBody == InitBody /\ [][NextBody]_vars

FormatSetAndNotText ==
    /\ request.output # Undefined
    /\ request.output.format \in {Str(<<"json">>), Str(<<"media">>)}

\* C5 as stated: a request whose output format is set and is not 'text'
\* always ends in the unsupported-output-format error, whatever the model
\* name and the messages are.
C5_AlwaysOnlyTextError ==
    (FormatSetAndNotText /\ body # NotCalled) => body = OnlyTextError

\* C5 amended: such a request never yields a body; the error raised is
\* 'Unsupported model' when the name is not in the registry, else the error of
\* the message conversion when that throws, else the unsupported-output-format
\* error.
C5_NeverABodyErrorsInOrder ==
    (FormatSetAndNotText /\ body # NotCalled) =>
        /\ ~body.ok
        /\ body = IF modelName \notin SupportedNames THEN UnsupportedModelError
                  ELSE IF ~ToAnthropicMessages(request.messages).ok
                       THEN ToAnthropicMessages(request.messages)
                       ELSE OnlyTextError

C5_Witness ==
    /\ FormatSetAndNotText
    /\ modelName \in SupportedNames
    /\ body = OnlyTextError

Falsy(v) == v \in {Undefined, Null, Bool(FALSE), Num(0), Str(<<>>)}
EmptyList(v) == v = Arr(<<>>)

\* C7: the returned body holds a key if and only if the value assembled for
\* it is neither falsy nor an empty list, each kept key with its assembled
\* value; an unset top_k never appears.
C7_KeptIffTruthyAndNotEmptyList ==
    (body # NotCalled /\ body.ok) =>
        LET assembled == AssembledBody(modelName, request, stream,
                                       ToAnthropicMessages(request.messages).val)
        IN  /\ DOMAIN body.val =
                  {key \in BodyKeys : ~Falsy(assembled[key]) /\ ~EmptyList(assembled[key])}
            /\ \A key \in DOMAIN body.val : body.val[key] = assembled[key]
            /\ ConfigField(request, "topK") = Undefined => "top_k" \notin DOMAIN body.val

C7_Witness ==
    /\ body # NotCalled /\ body.ok
    /\ ConfigField(request, "temperature") = Num(0)
    /\ ConfigField(request, "stopSequences") = Arr(<<>>)
    /\ ConfigField(request, "topP") = Num(1)
    /\ "temperature" \notin DOMAIN body.val
    /\ "stop_sequences" \notin DOMAIN body.val
    /\ "top_p" \in DOMAIN body.val

\* C10 as stated: a returned body's max_tokens is the config's
\* maxOutputTokens when the config provides one and 4096 otherwise, and its
\* model is the request's version override if given, else the registry
\* entry's version.
C10_MaxTokensAndModel ==
    (modelName \in SupportedNames /\ body # NotCalled /\ body.ok) =>
        /\ "max_tokens" \in DOMAIN body.val
        /\ body.val["max_tokens"] =
              IF ConfigField(request, "maxOutputTokens") # Undefined
              THEN ConfigField(request, "maxOutputTokens") ELSE Num(4096)
        /\ "model" \in DOMAIN body.val
        /\ body.val["model"] =
              IF ConfigField(request, "version") # Undefined
              THEN ConfigField(request, "version")
              ELSE SUPPORTED_CLAUDE_MODELS(modelName).version

\* A key of the returned body holds v, or is absent when v is 0 or ''.
HoldsUnlessFalsy(key, v) ==
    IF v \in {Num(0), Str(<<>>)}
    THEN key \notin DOMAIN body.val
    ELSE key \in DOMAIN body.val /\ body.val[key] = v

\* C10 amended: max_tokens is the config's maxOutputTokens when it provides a
\* non-zero one, is absent when it provides 0, and is 4096 otherwise; model is
\* the version override when a non-empty one is given, is absent when the
\* override is the empty string, else the registry entry's version.
C10_MaxTokensAndModelUnlessFalsy ==
    (modelName \in SupportedNames /\ body # NotCalled /\ body.ok) =>
        /\ HoldsUnlessFalsy("max_tokens",
              IF ConfigField(request, "maxOutputTokens") # Undefined
              THEN ConfigField(request, "maxOutputTokens") ELSE Num(4096))
        /\ HoldsUnlessFalsy("model",
              IF ConfigField(request, "version") # Undefined
              THEN ConfigField(request, "version")
              ELSE SUPPORTED_CLAUDE_MODELS(modelName).version)

C10_Witness ==
    /\ modelName = "claude-3-5-sonnet"
    /\ body # NotCalled /\ body.ok
    /\ ConfigField(request, "maxOutputTokens") = Num(2)
    /\ ConfigField(request, "version") = Str(<<"claude-3-haiku-20240307">>)
    /\ body.val["max_tokens"] = Num(2)
    /\ body.val["model"] = Str(<<"claude-3-haiku-20240307">>)

----------------------------------------------------------------------------
(* The runner returned by claudeRunner(name, client) *)

MaxEvents == 3

TextStart == [type |-> "content_block_start",
              content_block |-> [type |-> "text", text |-> Str(<<>>)]]
ToolUseStart == [type |-> "content_block_start",
                 content_block |-> [type |-> "tool_use", id |-> Str(<<"AAAA">>),
                                    name |-> Str(<<"AAAA">>), input |-> Obj(<<>>)]]
TextDelta == [type |-> "content_block_delta",
              delta |-> [type |-> "text_delta", text |-> Str(<<"AAAA">>)]]
InputJsonDelta == [type |-> "content_block_delta",
                   delta |-> [type |-> "input_json_delta", partial_json |-> Str(<<"{">>)]]

StreamEvents ==
    { [type |-> "message_start", usage |-> [input_tokens |-> 7, output_tokens |-> 1]],
      TextStart, ToolUseStart, TextDelta, InputJsonDelta,
      [type |-> "content_block_stop"],
      [type |-> "message_delta", usage |-> [output_tokens |-> 9]],
      [type |-> "message_stop"] }

StopReasons ==
    { Str(<<"end_turn">>), Str(<<"max_tokens">>), Str(<<"stop_sequence">>),
      Str(<<"tool_use">>), Null, Str(<<"pause_turn">>), Str(<<"refusal">>), Undefined }

ResponseContents ==
    { <<>>, <<TextBlock(Str(<<"AAAA">>))>>,
      <<TextBlock(Str(<<"AAAA">>)), ToolUseBlock(Str(<<"AAAA">>), Str(<<"\n">>), Obj(<<>>))>> }

Usages == {[input_tokens |-> 3, output_tokens |-> 5], [input_tokens |-> 0, output_tokens |-> 0]}

ProviderMessages ==
    {[stop_reason |-> sr, content |-> c, usage |-> u] :
        sr \in StopReasons, c \in ResponseContents, u \in Usages}

RunnerRequests ==
    { [NoRequest EXCEPT !.messages = <<UserMessage>>],
      [NoRequest EXCEPT !.messages = <<UserMessage>>, !.output = [format |-> Str(<<"json">>)]] }

InitRunner ==
    /\ pc = "start"
    /\ streaming \in BOOLEAN
    /\ modelName \in {"claude-3-haiku", "gpt-4"}
    /\ request \in RunnerRequests
    /\ stream = Undefined
    /\ body = NotCalled
    /\ delivered = <<>>
    /\ nextRequests = 0
    /\ callbackLog = <<>>
    /\ active = 0
    /\ completed = 0
    /\ finalRequested = FALSE
    /\ response = Undefined
    /\ result = NotCalled
    /\ PartsIdle
    /\ MessagesIdle

\* if (c) replaced by a test of the text of the part.
CallbackDueIfText(c) == c # Undefined /\ Truthy(c.text)

\* if (c): an object is truthy, only `return;` is not.
CallbackDue(c) == c # Undefined

\* The loop goes on although the streamingCallback has not returned.
ResumeAfterInvoke == "next"

\* streamingCallback({...}) is a plain call: the runner stands in it until it returns.
AfterInvoke == "inCallback"

\* const body = toAnthropicRequestBody(name, request, !!streamingCallback);
\* then client.messages.stream(body) or client.messages.create(body).
Start ==
    /\ pc = "start"
    /\ stream' = Bool(streaming)
    /\ body' = ToAnthropicRequestBody(modelName, request, Bool(streaming))
    /\ pc' = IF ~body'.ok THEN "rejected"
             ELSE IF streaming THEN "next" ELSE "awaitCreate"
    /\ UNCHANGED <<modelName, request, partVars, msgVars, streaming, delivered, nextRequests,
                   callbackLog, active, completed, finalRequested, response, result>>

\* for await (const chunk of stream): the next event is asked for.
RequestNext ==
    /\ pc = "next"
    /\ nextRequests' = nextRequests + 1
    /\ pc' = "awaitEvent"
    /\ UNCHANGED <<partVars, msgVars, bodyVars, streaming, delivered, callbackLog, active,
                   completed, finalRequested, response, result>>

\* if (c) { streamingCallback({ index: 0, content: [c] }); }
LoopBody(c) ==
    IF CallbackDue(c)
    THEN /\ callbackLog' = Append(callbackLog, [index |-> 0, content |-> <<c>>])
         /\ active' = active + 1
         /\ pc' = AfterInvoke
    ELSE /\ UNCHANGED <<callbackLog, active>>
         /\ pc' = "next"

\* An event arrives: the loop body converts it and, if it yields a part,
\* calls the streamingCallback.
ConsumeEvent ==
    /\ pc = "awaitEvent"
    /\ Len(delivered) < MaxEvents
    /\ \E chunk \in StreamEvents :
          /\ delivered' = Append(delivered, chunk)
          /\ LoopBody(FromAnthropicContentBlockChunk(chunk))
    /\ UNCHANGED <<partVars, msgVars, bodyVars, streaming, nextRequests, completed,
                   finalRequested, response, result>>

\* A streamingCallback invocation returns.
CallbackReturn ==
    /\ active > 0
    /\ active' = active - 1
    /\ completed' = completed + 1
    /\ pc' = IF pc = "inCallback" THEN "next" ELSE pc
    /\ UNCHANGED <<partVars, msgVars, bodyVars, streaming, delivered, nextRequests,
                   callbackLog, finalRequested, response, result>>

\* The stream is exhausted: response = await stream.finalMessage() is asked for.
StreamEnd ==
    /\ pc = "awaitEvent"
    /\ finalRequested' = TRUE
    /\ pc' = "awaitFinal"
    /\ UNCHANGED <<partVars, msgVars, bodyVars, streaming, delivered, nextRequests,
                   callbackLog, active, completed, response, result>>

\* The provider answers (the finalized message, or the answer to create);
\* return fromAnthropicResponse(response).
Respond ==
    /\ pc \in {"awaitFinal", "awaitCreate"}
    /\ \E m \in ProviderMessages :
          /\ response' = m
          /\ result' = Returns(FromAnthropicResponse(m))
    /\ pc' = "done"
    /\ UNCHANGED <<partVars, msgVars, bodyVars, streaming, delivered, nextRequests,
                   callbackLog, active, completed, finalRequested>>

NextRunner == Start \/ RequestNext \/ ConsumeEvent \/ CallbackReturn \/ StreamEnd \/ Respond

SpecRunner == InitRunner /\ [][NextRunner]_vars

IsConvertibleEvent(e) == e.type \in {"content_block_start", "content_block_delta"}

\* The callback arguments the events es call for: one per convertible event, in order.
RECURSIVE ExpectedChunks(_)
ExpectedChunks(es) ==
    IF es = <<>> THEN <<>>
    ELSE LET rest == ExpectedChunks(Tail(es))
         IN  IF IsConvertibleEvent(Head(es))
             THEN <<[index |-> 0, content |-> <<FromAnthropicContentBlockChunk(Head(es))>>]>> \o rest
             ELSE rest

\* C1: the callback is invoked once per content_block_start or
\* content_block_delta event, in arrival order, with {index: 0, content: [the
\* converted part]}, and for no other event; the usage of the returned
\* response is the finalized message's, whatever was streamed.
C1_CallbackPerConvertibleEvent ==
    /\ callbackLog = ExpectedChunks(delivered)
    /\ pc = "done" =>
          /\ result.val.usage.inputTokens = response.usage.input_tokens
          /\ result.val.usage.outputTokens = response.usage.output_tokens

C1_Witness ==
    /\ pc = "done" /\ streaming
    /\ delivered = <<[type |-> "message_delta", usage |-> [output_tokens |-> 9]],
                     TextStart, InputJsonDelta>>
    /\ Len(callbackLog) = 2
    /\ result.val.usage.outputTokens = 5

NumConvertible(es) == Cardinality({i \in 1..Len(es) : IsConvertibleEvent(es[i])})

\* C2: events are consumed one at a time: no two callback invocations overlap,
\* event k+1 is asked for only when the callback for event k has returned,
\* stream.finalMessage() is asked for only after the stream is exhausted, and
\* the result comes after every callback invocation has returned.
C2_OneEventAtATime ==
    /\ active <= 1
    /\ nextRequests <= Len(delivered) + 1
    /\ nextRequests = Len(delivered) + 1 =>
          active = 0 /\ completed = NumConvertible(delivered)
    /\ finalRequested =>
          /\ nextRequests = Len(delivered) + 1
          /\ active = 0
    /\ result # NotCalled =>
          /\ active = 0
          /\ completed = Len(callbackLog)
          /\ streaming => finalRequested

C2_Witness ==
    /\ pc = "done" /\ streaming
    /\ completed = 3
    /\ nextRequests = 4

\* The finish reason the claim gives for a stop reason.
NormalizedReason(reason) ==
    IF reason = Str(<<"max_tokens">>) THEN "length"
    ELSE IF reason = Str(<<"end_turn">>) \/ reason = Str(<<"stop_sequence">>)
            \/ reason = Str(<<"tool_use">>) THEN "stop"
    ELSE IF reason = Null THEN "unknown"
    ELSE "other"

\* C9: every stop reason is mapped (max_tokens to length; end_turn,
\* stop_sequence and tool_use to stop; null to unknown; anything else to
\* other), and the response holds exactly one candidate, with index 0, role
\* 'model' and that finish reason.
C9_OneCandidateNormalizedReason ==
    result # NotCalled =>
        /\ result.ok
        /\ Len(result.val.candidates) = 1
        /\ result.val.candidates[1].index = 0
        /\ result.val.candidates[1].message.role = "model"
        /\ result.val.candidates[1].finishReason = NormalizedReason(response.stop_reason)
        /\ result.val.candidates[1].finishReason \in {"length", "stop", "unknown", "other"}

C9_Witness ==
    /\ result # NotCalled
    /\ response.stop_reason = Str(<<"tool_use">>)
    /\ result.val.candidates[1].finishReason = "stop"

====
